---- MODULE Spec2Model ----
(***************************************************************************)
(* A model of enrich_linkedin.py: the batch driver (main) with its three   *)
(* stores (remaining.csv, enriched_linkedin.csv, enrichment_errors.log),   *)
(* the name normaliser (guess_fullname), the candidate matcher and         *)
(* selector (name_matches, search_linkedin) and the Blockchain-at-Berkeley *)
(* tenure extraction of parse_linkedin_text.                               *)
(*                                                                         *)
(* Names, e-mail addresses, titles and URLs are sequences of one-character *)
(* strings, so that prefixes, substrings, case and digits are computed as  *)
(* Python computes them.  A profile text is a sequence of lines, each line *)
(* a record for one of the line shapes the regular expressions tell apart. *)
(***************************************************************************)
EXTENDS Integers, Sequences, FiniteSets, TLC

VARIABLES
    \* ---- the stores and the run of main
    roster,      \* slack.csv: the rows of the input roster, never written
    exaIndex,    \* the provider's index: the search results it holds per person
    remaining,   \* remaining.csv: [exists |-> BOOLEAN, rows |-> Seq(person)]
    output,      \* enriched_linkedin.csv: the appended rows
    errlog,      \* enrichment_errors.log: the appended lines
    pc,          \* where the process is: "idle" (no process), "loop", "logged"
    rows,        \* main's local `rows` (of the last run, once it has ended)
    i,           \* main's loop index (0-based, as enumerate gives it)
    lastExit,    \* how the last process ended ("running" while one runs)
    prevCount,   \* len(rows) at the start of the run (total_remaining)
    runOut,      \* the rows this run appended, in order
    runLog,      \* the lines this run logged, in order
    kills,       \* how many runs were terminated mid-batch so far
    killedOut,   \* the rows a terminated run had appended of the batch still pending
    \* ---- one call of guess_fullname
    gRow, gRet,
    \* ---- one call of parse_linkedin_text
    pText, pRet,
    \* ---- one call of search_linkedin, and main's row built from it
    sPerson, sApi, sRet, sOutRow

pipeVars   == <<roster, exaIndex, remaining, output, errlog, pc, rows, i, lastExit,
                prevCount, runOut, runLog, kills, killedOut>>
guessVars  == <<gRow, gRet>>
parseVars  == <<pText, pRet>>
searchVars == <<sPerson, sApi, sRet, sOutRow>>
vars       == <<pipeVars, guessVars, parseVars, searchVars>>

(***************************************************************************)
(* Strings                                                                 *)
(***************************************************************************)
Lowers == {"a", "b", "c"}
Uppers == {"A", "B", "C"}
Digits == {"1", "2"}

\* str.lower() on one character
LowerCh(c) ==
    CASE c = "A" -> "a" [] c = "B" -> "b" [] c = "C" -> "c" [] OTHER -> c

\* str.upper() on one character
UpperCh(c) ==
    CASE c = "a" -> "A" [] c = "b" -> "B" [] c = "c" -> "C" [] OTHER -> c

IsAlphaCh(c) == c \in Lowers \cup Uppers
IsSpaceCh(c) == c = " "

\* s.lower()
Lower(s) == [k \in 1..Len(s) |-> LowerCh(s[k])]

\* s.isalpha(): every character a letter, and at least one character
IsAlpha(s) == Len(s) > 0 /\ \A k \in 1..Len(s) : IsAlphaCh(s[k])

\* s.capitalize(): first character upper-cased, the rest lower-cased
Capitalize(s) ==
    [k \in 1..Len(s) |-> IF k = 1 THEN UpperCh(s[k]) ELSE LowerCh(s[k])]

\* s.startswith(p)
StartsWith(s, p) == Len(p) <= Len(s) /\ SubSeq(s, 1, Len(p)) = p

\* sub in s
Contains(s, sub) ==
    \E k \in 0..(Len(s) - Len(sub)) : SubSeq(s, k + 1, k + Len(sub)) = sub

\* s.rstrip("0123456789")
RECURSIVE RStripDigits(_)
RStripDigits(s) ==
    IF Len(s) > 0 /\ s[Len(s)] \in Digits
    THEN RStripDigits(SubSeq(s, 1, Len(s) - 1))
    ELSE s

RECURSIVE LStrip(_)
LStrip(s) ==
    IF Len(s) > 0 /\ IsSpaceCh(s[1]) THEN LStrip(Tail(s)) ELSE s

RECURSIVE RStrip(_)
RStrip(s) ==
    IF Len(s) > 0 /\ IsSpaceCh(s[Len(s)])
    THEN RStrip(SubSeq(s, 1, Len(s) - 1))
    ELSE s

\* s.strip()
Strip(s) == RStrip(LStrip(s))

\* s.split("@")[0]: what precedes the first "@", all of s when there is none
RECURSIVE BeforeAt(_)
BeforeAt(s) ==
    IF Len(s) = 0 \/ s[1] = "@" THEN <<>> ELSE <<s[1]>> \o BeforeAt(Tail(s))

\* s.split(): the maximal runs of non-space characters, in order
RECURSIVE SplitWords(_)
SplitWords(s) ==
    LET t == LStrip(s)
        n == IF \E k \in 1..Len(t) : IsSpaceCh(t[k])
             THEN (CHOOSE k \in 1..Len(t) :
                      IsSpaceCh(t[k]) /\ \A j \in 1..(k - 1) : ~IsSpaceCh(t[j])) - 1
             ELSE Len(t)
    IN  IF Len(t) = 0 THEN <<>>
        ELSE <<SubSeq(t, 1, n)>> \o SplitWords(SubSeq(t, n + 1, Len(t)))

\* every sequence over S of length at most n
SeqsUpTo(S, n) == UNION {[1..k -> S] : k \in 0..n}

(***************************************************************************)
(* guess_fullname                                                          *)
(***************************************************************************)
\* One turn of the loop over [email_prefix, username] (lines 92-96): the name
\* built from `source`, or no hit.
GuessFromSource(fullname, source) ==
    LET first_lower  == Lower(fullname)
        source_lower == RStripDigits(Lower(source))
        rest         == SubSeq(source_lower, Len(first_lower) + 1, Len(source_lower))
    IN  IF /\ StartsWith(source_lower, first_lower)
           /\ Len(source_lower) > Len(first_lower)
           /\ IsAlpha(rest)
           /\ Len(rest) > 1
        THEN [hit |-> TRUE, name |-> fullname \o <<" ">> \o Capitalize(rest)]
        ELSE [hit |-> FALSE, name |-> <<>>]

\* The last rule (lines 99-100): the username taken as the last name.
UsernameUsable(fullname, username) ==
    /\ Len(username) > 0
    /\ Lower(username) # Lower(fullname)
    /\ IsAlpha(username)
    /\ Len(username) > 2

\* a slip: the username appended as it is typed, not capitalized
GuessByUsernameRaw(fullname, username) == fullname \o <<" ">> \o username

GuessByUsername(fullname, username) == fullname \o <<" ">> \o Capitalize(username)

guess_fullname(row) ==
    LET fullname     == Strip(row.fullname)
        username     == Strip(row.username)
        email        == Strip(row.email)
        email_prefix == IF Len(email) > 0 THEN BeforeAt(email) ELSE <<>>
        byEmail      == GuessFromSource(fullname, email_prefix)
        byUser       == GuessFromSource(fullname, username)
    IN  IF Contains(fullname, <<" ">>) THEN fullname
        ELSE IF byEmail.hit THEN byEmail.name
        ELSE IF byUser.hit THEN byUser.name
        ELSE IF UsernameUsable(fullname, username)
             THEN GuessByUsername(fullname, username)
        ELSE fullname

(***************************************************************************)
(* Profile texts and parse_linkedin_text                                   *)
(*                                                                         *)
(* A text is None or a sequence of non-empty lines.  A line is one of      *)
(*   plain  : free text, its characters in `t`                             *)
(*   exp    : the heading "## Experience"                                  *)
(*   role   : "### <title> at <org>", with "(Current)" after it when `cur` *)
(*   dates  : "<Month Year> - <Month Year|Present>", months counted from 1 *)
(* The location rule of lines 143-153 is left out: no property here reads  *)
(* the location field.                                                     *)
(***************************************************************************)
BAB == "Blockchain at Berkeley"

Plain(t)             == [k |-> "plain", t |-> t, title |-> "", org |-> "", cur |-> FALSE, s |-> 0, e |-> 0]
ExpLine              == [k |-> "exp", t |-> <<>>, title |-> "", org |-> "", cur |-> FALSE, s |-> 0, e |-> 0]
Role(title, org, c)  == [k |-> "role", t |-> <<>>, title |-> title, org |-> org, cur |-> c, s |-> 0, e |-> 0]
Dates(s, e)          == [k |-> "dates", t |-> <<>>, title |-> "", org |-> "", cur |-> FALSE, s |-> s, e |-> e]
NoLine               == Plain(<<>>)

NoneText     == [none |-> TRUE, lines |-> <<>>]
Text(lines)  == [none |-> FALSE, lines |-> lines]

\* Python's truth value of a text: neither None nor ""
Truthy(text) == ~text.none /\ Len(text.lines) > 0

berkeley == <<"b", "e", "r", "k", "e", "l", "e", "y">>

\* "berkeley" in text.lower()
MentionsBerkeley(text) ==
    \E k \in 1..Len(text.lines) :
        \/ Contains(Lower(text.lines[k].t), berkeley)
        \/ text.lines[k].k = "role" /\ text.lines[k].org = BAB

\* "## Experience" in text
HasExperience(text) == \E k \in 1..Len(text.lines) : text.lines[k].k = "exp"

MinOf(S) == CHOOSE x \in S : \A y \in S : x <= y
MaxOf(S) == CHOOSE x \in S : \A y \in S : x >= y

\* re.findall of lines 161-165 from line `from` on: each Blockchain at
\* Berkeley header with the first date range after it; the scan goes on after
\* that date range.
RECURSIVE BabMatches(_, _)
BabMatches(lines, from) ==
    LET hs == {k \in from..Len(lines) : lines[k].k = "role" /\ lines[k].org = BAB}
    IN  IF hs = {} THEN <<>>
        ELSE LET h  == MinOf(hs)
                 ds == {k \in (h + 1)..Len(lines) : lines[k].k = "dates"}
             IN  IF ds = {} THEN <<>>
                 ELSE LET d == MinOf(ds)
                      IN  <<[role  |-> lines[h].title,
                             start |-> lines[d].s,
                             end   |-> lines[d].e]>> \o BabMatches(lines, d + 1)

NoYears == [set |-> FALSE, start |-> 0, end |-> 0]

\* line 173: f"{bab_matches[-1][1]} - {bab_matches[0][2]}"
BabYears(bab_matches) ==
    [set   |-> TRUE,
     start |-> bab_matches[Len(bab_matches)].start,
     end   |-> bab_matches[1].end]

\* lines 124-141: the role marked (Current), else the first role from the
\* "## Experience" heading on
CurrentRole(lines) ==
    LET marked == {k \in 1..Len(lines) : lines[k].k = "role" /\ lines[k].cur}
        exps   == {k \in 1..Len(lines) : lines[k].k = "exp"}
        after  == IF exps = {} THEN {}
                  ELSE {k \in MinOf(exps)..Len(lines) : lines[k].k = "role"}
    IN  IF marked # {} THEN lines[MinOf(marked)]
        ELSE IF after # {} THEN lines[MinOf(after)]
        ELSE NoLine

EmptyParsed ==
    [current_title |-> "", current_company |-> "", linkedin_headline |-> NoLine,
     education |-> "", bab_role |-> <<>>, bab_years |-> NoYears]

parse_linkedin_text(text) ==
    IF ~Truthy(text) THEN EmptyParsed
    ELSE LET lines       == text.lines
             cur         == CurrentRole(lines)
             bab_matches == BabMatches(lines, 1)
         IN  [current_title     |-> cur.title,
              current_company   |-> cur.org,
              linkedin_headline |-> IF Len(lines) > 1 THEN lines[2] ELSE NoLine,
              education         |-> IF MentionsBerkeley(text) THEN "UC Berkeley" ELSE "",
              bab_role          |-> [k \in 1..Len(bab_matches) |-> bab_matches[k].role],
              bab_years         |-> IF Len(bab_matches) > 0
                                    THEN BabYears(bab_matches) ELSE NoYears]

(***************************************************************************)
(* name_matches and search_linkedin                                        *)
(***************************************************************************)
name_matches(fullname, title, url) ==
    LET name_parts  == SplitWords(Lower(fullname))
        title_lower == Lower(title)
        url_lower   == Lower(url)
        first       == IF Len(name_parts) > 0 THEN name_parts[1] ELSE <<>>
        last        == IF Len(name_parts) > 1 THEN name_parts[Len(name_parts)] ELSE <<>>
        first_in    == Contains(title_lower, first)
        last_in     == Len(last) = 0 \/ Contains(title_lower, last) \/ Contains(url_lower, last)
    IN  first_in /\ last_in

\* [r for r in xs if P(r)], kept in order
RECURSIVE Filter(_, _)
Filter(xs, keep) ==
    IF Len(xs) = 0 THEN <<>>
    ELSE (IF keep[1] THEN <<xs[1]>> ELSE <<>>)
         \o Filter(Tail(xs), Tail(keep))

\* line 202
SearchName(fullname, row) ==
    IF ~Contains(fullname, <<" ">>) THEN guess_fullname(row) ELSE fullname

\* line 214
Matches(results, search_name) ==
    Filter(results, [k \in 1..Len(results) |->
                        name_matches(search_name, results[k].title, results[k].url)])

\* line 219
BerkeleyMatches(matches) ==
    Filter(matches, [k \in 1..Len(matches) |->
                        Truthy(matches[k].text) /\ MentionsBerkeley(matches[k].text)])

\* a slip: the first result, whatever the profile texts say
BestFirstMatch(matches, berkeley_matches) == matches[1]

\* line 220
BestOf(matches, berkeley_matches) ==
    IF Len(berkeley_matches) > 0 THEN berkeley_matches[1] ELSE matches[1]

Best(matches) == BestOf(matches, BerkeleyMatches(matches))

\* line 226: [best] + [r for r in matches if r != best]
FetchOrder(matches, best) ==
    <<best>> \o Filter(matches, [k \in 1..Len(matches) |-> matches[k] # best])

\* Lines 225-235 from the k-th candidate of `order` on.  get_contents of a URL
\* is fetch[url]: it raises, or returns a result list that is empty or holds
\* one text.  An exception leaves the loop, which the try encloses, and is
\* swallowed.  `tried` lists the URLs fetched so far.
RECURSIVE FollowUp(_, _, _, _, _)
FollowUp(order, fetch, k, text, tried) ==
    IF k > Len(order) THEN [text |-> text, tried |-> tried, from |-> 0]
    ELSE LET content == fetch[order[k].url]
             tried2  == Append(tried, order[k].url)
         IN  IF content.raises
             THEN [text |-> text, tried |-> tried2, from |-> 0]
             ELSE IF content.has /\ Truthy(content.text) /\ HasExperience(content.text)
             THEN [text |-> content.text, tried |-> tried2, from |-> k]
             ELSE FollowUp(order, fetch, k + 1, text, tried2)

\* a variant: the URL of the candidate whose fetched text is returned
ReturnedUrlOfText(best, order, from) ==
    IF from > 0 THEN order[from].url ELSE best.url

\* line 237: the URL returned is best.url
ReturnedUrl(best, order, from) == best.url

\* lines 222-237 once `best` is chosen: the follow-up when best.text is a
\* text without the marker, and the value returned
Finish(best, order, fu) ==
    [raised |-> FALSE, none |-> FALSE,
     url |-> ReturnedUrl(best, order, fu.from),
     text |-> fu.text, tried |-> fu.tried, from |-> fu.from]

WithBest(fetch, best, order) ==
    IF Truthy(best.text) /\ ~HasExperience(best.text)
    THEN Finish(best, order, FollowUp(order, fetch, 1, best.text, <<>>))
    ELSE Finish(best, order, [text |-> best.text, tried |-> <<>>, from |-> 0])

\* lines 215-220 on the name-matching results
WithMatches(fetch, matches) ==
    IF Len(matches) = 0
    THEN [raised |-> FALSE, none |-> TRUE, url |-> <<>>, text |-> NoneText,
          tried |-> <<>>, from |-> 0]
    ELSE WithBest(fetch, Best(matches), FetchOrder(matches, Best(matches)))

\* search_linkedin(exa, fullname, row).  exa is [search, fetch]: what
\* search_and_contents does (raise, or the result list) and what get_contents
\* does per URL.  The value is what the call does: raises, returns
\* (None, None), or returns (url, text); `tried` and `from` keep which URLs the
\* follow-up fetched and which candidate (position in the fetch order, 0 for
\* none) the returned text was fetched from.
search_linkedin(exa, fullname, row) ==
    IF exa.search.raises
    THEN [raised |-> TRUE, none |-> TRUE, url |-> <<>>, text |-> NoneText,
          tried |-> <<>>, from |-> 0]
    ELSE WithMatches(exa.fetch, Matches(exa.search.results, SearchName(fullname, row)))

(***************************************************************************)
(* main: the row of one person (lines 308-329)                             *)
(***************************************************************************)
\* line 271; OUTPUT_FIELDS without "location"
empty_row(fullname, email) ==
    [fullname |-> fullname, email |-> email, linkedin_url |-> <<>>,
     current_title |-> "", current_company |-> "", linkedin_headline |-> NoLine,
     education |-> "", bab_role |-> <<>>, bab_years |-> NoYears]

\* line 318: {"fullname", "email", "linkedin_url": url, **parsed}
data_row(fullname, email, url, parsed) ==
    [fullname |-> fullname, email |-> email, linkedin_url |-> url,
     current_title |-> parsed.current_title,
     current_company |-> parsed.current_company,
     linkedin_headline |-> parsed.linkedin_headline,
     education |-> parsed.education,
     bab_role |-> parsed.bab_role, bab_years |-> parsed.bab_years]

\* lines 315-329: the row main appends for what search_linkedin did
RowFor(person, ret) ==
    LET fullname == Strip(person.fullname)
        email    == Strip(person.email)
    IN  IF ~ret.raised /\ ~ret.none /\ Len(ret.url) > 0
        THEN data_row(fullname, email, ret.url, parse_linkedin_text(ret.text))
        ELSE empty_row(fullname, email)

(***************************************************************************)
(* The stores and the steps of main                                        *)
(***************************************************************************)
\* line 23 is BATCH_SIZE = 10; the model runs batches of this size
BATCH_SIZE == 2

\* line 38: the roster rows whose fullname is not blank
RECURSIVE NonBlank(_)
NonBlank(rs) ==
    IF Len(rs) = 0 THEN <<>>
    ELSE (IF Len(Strip(rs[1].fullname)) > 0 THEN <<rs[1]>> ELSE <<>>)
         \o NonBlank(Tail(rs))

\* a variant: the roster copied as it is
init_remaining_all(rs) == rs

\* init_remaining: the rows written to remaining.csv and returned
init_remaining(rs) == NonBlank(rs)

\* read_remaining: the rows of remaining.csv
read_remaining(file) == file.rows

\* write_remaining, and the writing half of init_remaining: remaining.csv
\* rewritten to hold `rs`
write_remaining(rs) == [exists |-> TRUE, rows |-> rs]

\* line 301: rows[:BATCH_SIZE]
Batch(rs) == SubSeq(rs, 1, IF Len(rs) < BATCH_SIZE THEN Len(rs) ELSE BATCH_SIZE)

\* a slip: one row too few removed
RemainingAfterOffByOne(rs) == SubSeq(rs, BATCH_SIZE, Len(rs))

\* line 335: rows[BATCH_SIZE:]
RemainingAfter(rs) == SubSeq(rs, BATCH_SIZE + 1, Len(rs))

\* a variant: the file opened with "w", so that only the last row is kept
append_result_overwrite(out, entry) == <<entry>>

\* a variant: a person who has a row already gets no second one
append_result_once(out, entry) ==
    IF \E k \in 1..Len(out) : out[k].src = entry.src THEN out ELSE Append(out, entry)

\* append_result: one row appended to enriched_linkedin.csv.  An entry is the
\* row with `src`, the roster position of the person it is for.
append_result(out, entry) == Append(out, entry)

\* log_error: one line appended to enrichment_errors.log
log_error(log, email, fullname, src) ==
    Append(log, [email |-> email, fullname |-> fullname, src |-> src])

\* a variant: no handler, the exception ends the process
AfterRaiseUncaught == "idle"

\* lines 325-326: the exception is caught and logged; the row is still to come
AfterRaise == "logged"

(***************************************************************************)
(* Values of the variables a specification does not use                    *)
(***************************************************************************)
NoRet == [done |-> FALSE]

PipeParked ==
    /\ roster = <<>>
    /\ exaIndex = <<>>
    /\ remaining = [exists |-> FALSE, rows |-> <<>>]
    /\ output = <<>>
    /\ errlog = <<>>
    /\ pc = "idle"
    /\ rows = <<>>
    /\ i = 0
    /\ lastExit = "none"
    /\ prevCount = 0
    /\ runOut = <<>>
    /\ runLog = <<>>
    /\ kills = 0
    /\ killedOut = <<>>

GuessParked == gRow = <<>> /\ gRet = NoRet

ParseParked == pText = <<>> /\ pRet = NoRet

SearchParked == sPerson = <<>> /\ sApi = <<>> /\ sRet = NoRet /\ sOutRow = NoRet

(***************************************************************************)
(* SpecGuess: guess_fullname applied to every record within the bound      *)
(***************************************************************************)
\* the characters of the three fields, and the bound on their total length
MaxGuessChars == 6
FullnameChars == {"a", "A", " "}
UsernameChars == {"a", "A", "b", "1"}
EmailChars    == {"a", "A", "b", "1", "@"}

InitGuess ==
    /\ \E a \in 0..MaxGuessChars :
       \E b \in 0..(MaxGuessChars - a) :
       \E c \in 0..(MaxGuessChars - a - b) :
          gRow \in [fullname : [1..a -> FullnameChars],
                    username : [1..b -> UsernameChars],
                    email    : [1..c -> EmailChars]]
    /\ gRet = NoRet
    /\ PipeParked /\ ParseParked /\ SearchParked

GuessCall ==
    /\ ~gRet.done
    /\ gRet' = [done |-> TRUE, name |-> guess_fullname(gRow)]
    /\ UNCHANGED <<gRow, pipeVars, parseVars, searchVars>>

NextGuess == GuessCall

SpecGuess == InitGuess /\ [][NextGuess]_vars

\* a capitalized alphabetic word: first letter upper-case, the rest lower-case
IsCapitalizedWord(w) ==
    /\ Len(w) > 0
    /\ w[1] \in Uppers
    /\ \A k \in 2..Len(w) : w[k] \in Lowers

\* C8: for a record whose fullname is a single word, guess_fullname returns
\* the name unchanged, or the name, one space and a capitalized alphabetic
\* suffix.
C8_GuessShape ==
    (gRet.done /\ ~Contains(gRow.fullname, <<" ">>)) =>
        \/ gRet.name = gRow.fullname
        \/ /\ Len(gRet.name) > Len(gRow.fullname) + 1
           /\ SubSeq(gRet.name, 1, Len(gRow.fullname)) = gRow.fullname
           /\ gRet.name[Len(gRow.fullname) + 1] = " "
           /\ IsCapitalizedWord(SubSeq(gRet.name, Len(gRow.fullname) + 2,
                                       Len(gRet.name)))

\* the username rule fired on a mixed-case username: "A" + "bAb" -> "A Bab"
C8_Witness ==
    /\ gRet.done
    /\ gRow.fullname = <<"A">>
    /\ gRow.username = <<"b", "A", "b">>
    /\ gRow.email = <<"b", "1">>
    /\ gRet.name = <<"A", " ", "B", "a", "b">>

(***************************************************************************)
(* SpecParse: parse_linkedin_text applied to every text within the bound   *)
(***************************************************************************)
MaxLines == 4
MaxMonth == 3
Present  == MaxMonth + 1

ParseLines ==
    {Plain(<<"a", " ", "b">>), Plain(<<"B", "e", "r", "k", "e", "l", "e", "y">>),
     ExpLine,
     Role("President", BAB, FALSE), Role("Member", BAB, FALSE),
     Role("Engineer", "Acme", TRUE)}
    \cup {Dates(s, e) : s \in 1..MaxMonth, e \in 1..Present}

InitParse ==
    /\ pText \in {NoneText} \cup {Text(ls) : ls \in SeqsUpTo(ParseLines, MaxLines)}
    /\ pRet = NoRet
    /\ PipeParked /\ GuessParked /\ SearchParked

ParseCall ==
    /\ ~pRet.done
    /\ pRet' = [done |-> TRUE, parsed |-> parse_linkedin_text(pText)]
    /\ UNCHANGED <<pText, pipeVars, guessVars, searchVars>>

NextParse == ParseCall

SpecParse == InitParse /\ [][NextParse]_vars

\* the Blockchain at Berkeley entries of a text, each a role header with its
\* own well-formed date range on the next line, and nothing between them
\* that the pattern could take for a date range
BabHeaders(lines) == {k \in 1..Len(lines) : lines[k].k = "role" /\ lines[k].org = BAB}

TenuresWellFormed(lines) ==
    /\ BabHeaders(lines) # {}
    /\ \A h \in BabHeaders(lines) :
          /\ h < Len(lines)
          /\ lines[h + 1].k = "dates"
          /\ lines[h + 1].s <= lines[h + 1].e

\* C7: with one or more Blockchain at Berkeley entries, each carrying a
\* well-formed date range, bab_years starts at the earliest start and ends at
\* the latest end of the tenures, so its start is not after its end, whatever
\* the order of the entries.
C7_YearsSpan ==
    (pRet.done /\ ~pText.none /\ TenuresWellFormed(pText.lines)) =>
        LET hs == BabHeaders(pText.lines)
            y  == pRet.parsed.bab_years
        IN  /\ y.set
            /\ y.start <= y.end
            /\ y.start = MinOf({pText.lines[h + 1].s : h \in hs})
            /\ y.end = MaxOf({pText.lines[h + 1].e : h \in hs})

(***************************************************************************)
(* SpecSearch: one call of search_linkedin, then main's row for it         *)
(***************************************************************************)
\* the provider returns at most MaxResults results (the code asks for 5)
MaxResults == 2

\* a one-word name the normaliser completes ("a" -> "a Bb"), a two-word name,
\* and a one-word name it leaves alone
SearchPersons ==
    {[fullname |-> <<"a">>, email |-> <<"a", "b", "b", "1", "@", "c">>, username |-> <<>>],
     [fullname |-> <<"b", " ", "a">>, email |-> <<"b", "@", "c">>, username |-> <<"b">>],
     [fullname |-> <<"c">>, email |-> <<>>, username |-> <<"c", "1">>]}

\* title and URL slug of a result; the k-th result's URL ends in k
ResultNames ==
    {[title |-> <<"A", " ", "B", "b">>, slug |-> <<"x">>],
     [title |-> <<"A", " ", "B", ".">>, slug |-> <<"a", "b", "b">>],
     [title |-> <<"A", " ", "B", ".">>, slug |-> <<"x">>],
     [title |-> <<"c">>, slug |-> <<"x">>]}

UrlAt(slug, k) == slug \o <<CASE k = 1 -> "1" [] k = 2 -> "2" [] k = 3 -> "3" [] OTHER -> "4">>

\* the texts of a result: none, truncated without or with a mention of
\* Berkeley, complete
SearchTexts ==
    {NoneText,
     Text(<<Plain(<<"a">>), Plain(<<"c">>)>>),
     Text(<<Plain(<<"a">>), Plain(<<"B", "e", "r", "k", "e", "l", "e", "y">>)>>),
     Text(<<Plain(<<"a">>), Plain(<<"b">>), ExpLine, Role("Member", BAB, FALSE), Dates(1, 2)>>)}

\* what get_contents does for one URL: raise, or return a truncated or a
\* complete text
FetchOutcomes ==
    {[raises |-> TRUE, has |-> FALSE, text |-> NoneText],
     [raises |-> FALSE, has |-> TRUE, text |-> Text(<<Plain(<<"c">>), Plain(<<"a">>)>>)],
     [raises |-> FALSE, has |-> TRUE,
      text |-> Text(<<Plain(<<"c">>), Plain(<<"b", "b">>), ExpLine,
                      Role("Engineer", "Acme", TRUE), Dates(2, Present)>>)]}

\* a result list of n results, the k-th with names nm[k] and text tx[k]
ResultList(n, nm, tx) ==
    [k \in 1..n |-> [title |-> nm[k].title, url |-> UrlAt(nm[k].slug, k), text |-> tx[k]]]

UrlsOf(results) == {results[k].url : k \in 1..Len(results)}

\* the provider: the search raises, or returns up to MaxResults results, with
\* an outcome of get_contents for each of their URLs
InitSearchApi ==
    \/ sApi = [search |-> [raises |-> TRUE, results |-> <<>>], fetch |-> <<>>]
    \/ \E n \in 0..MaxResults :
       \E nm \in [1..n -> ResultNames] :
       \E tx \in [1..n -> SearchTexts] :
       \E f \in [UrlsOf(ResultList(n, nm, tx)) -> FetchOutcomes] :
          sApi = [search |-> [raises |-> FALSE, results |-> ResultList(n, nm, tx)],
                  fetch  |-> f]

InitSearch ==
    /\ sPerson \in SearchPersons
    /\ InitSearchApi
    /\ sRet = NoRet
    /\ sOutRow = NoRet
    /\ PipeParked /\ GuessParked /\ ParseParked

\* line 315: url, text = search_linkedin(exa, fullname, row)
SearchCall ==
    /\ ~sRet.done
    /\ sRet' = [done |-> TRUE,
                ret  |-> search_linkedin(sApi, Strip(sPerson.fullname), sPerson)]
    /\ UNCHANGED <<sPerson, sApi, sOutRow, pipeVars, guessVars, parseVars>>

\* lines 316-327: the row appended for it
EmitRow ==
    /\ sRet.done
    /\ ~sOutRow.done
    /\ sOutRow' = [done |-> TRUE, row |-> RowFor(sPerson, sRet.ret)]
    /\ UNCHANGED <<sPerson, sApi, sRet, pipeVars, guessVars, parseVars>>

NextSearch == SearchCall \/ EmitRow

SpecSearch == InitSearch /\ [][NextSearch]_vars

\* The selection stated over positions in the result list: the name-matching
\* positions, those among them whose text mentions Berkeley, and the selected
\* one (0 for none).
SearchResults == sApi.search.results
TargetName    == SearchName(Strip(sPerson.fullname), sPerson)

MatchedFor(name) ==
    {k \in 1..Len(SearchResults) :
        name_matches(name, SearchResults[k].title, SearchResults[k].url)}

MatchedAt == MatchedFor(TargetName)

\* the same over a given set of matched positions
MentioningIn(matched) ==
    {k \in matched : /\ ~SearchResults[k].text.none
                     /\ MentionsBerkeley(SearchResults[k].text)}

SelectedOf(matched, mentioning) ==
    IF matched = {} THEN 0
    ELSE IF mentioning # {} THEN MinOf(mentioning)
    ELSE MinOf(matched)

SelectedIn(matched) == SelectedOf(matched, MentioningIn(matched))

MentioningAt == MentioningIn(MatchedAt)

SelectedAt == SelectedIn(MatchedAt)

Returned == sRet.done /\ ~sApi.search.raises

\* the selection over a given set of matched positions
SelectionIs(matched) ==
    /\ sRet.ret.none <=> (matched = {})
    /\ matched # {} => sRet.ret.url = SearchResults[SelectedIn(matched)].url

\* C6: no match exactly when no candidate satisfies name_matches; otherwise
\* the first name-matching candidate that mentions Berkeley is selected, or
\* the first name-matching candidate when none mentions it.
C6_Selection == Returned => SelectionIs(MatchedAt)

\* two candidates match the name, only the second mentions Berkeley, and the
\* second is selected
C6_Witness ==
    /\ Returned
    /\ MatchedAt = {1, 2}
    /\ MentioningAt = {2}
    /\ sRet.ret.url = SearchResults[2].url

\* the positions of S in increasing order
RECURSIVE Ascending(_)
Ascending(S) == IF S = {} THEN <<>> ELSE <<MinOf(S)>> \o Ascending(S \ {MinOf(S)})

\* the order the follow-up is to try the candidates in: the selected one, then
\* the other matched ones in result order
TryOrder == <<SelectedAt>> \o Ascending(MatchedAt \ {SelectedAt})

\* the places of TryOrder whose fetch returns a text with the marker
GoodAt ==
    {n \in 1..Len(TryOrder) :
        LET c == sApi.fetch[SearchResults[TryOrder[n]].url]
        IN  ~c.raises /\ c.has /\ HasExperience(c.text)}

\* C5: when the selected candidate has a text without the marker, the
\* follow-up fetches the selected candidate and then the other matched ones in
\* order, skips a fetch that fails, stops at the first fetched text with the
\* marker and returns it, and keeps the original text when there is none.
C5_FollowUp ==
    (/\ Returned
     /\ MatchedAt # {}
     /\ Truthy(SearchResults[SelectedAt].text)
     /\ ~HasExperience(SearchResults[SelectedAt].text)) =>
        LET last == IF GoodAt # {} THEN MinOf(GoodAt) ELSE Len(TryOrder)
        IN  /\ sRet.ret.tried = [n \in 1..last |-> SearchResults[TryOrder[n]].url]
            /\ sRet.ret.text = IF GoodAt # {}
                               THEN sApi.fetch[SearchResults[TryOrder[last]].url].text
                               ELSE SearchResults[SelectedAt].text

\* the returned URL and the row, over given matched positions and selection
UrlIsOfBest(matched, best) ==
    matched # {} =>
        /\ sRet.ret.url = SearchResults[best].url
        /\ sOutRow.row.linkedin_url = sRet.ret.url
        /\ sRet.ret.from > 1 =>
              LET other == sRet.ret.tried[Len(sRet.ret.tried)]
              IN  /\ other # sRet.ret.url
                  /\ other \in {SearchResults[k].url : k \in matched}
                  /\ sRet.ret.text = sApi.fetch[other].text
                  /\ sOutRow.row = data_row(Strip(sPerson.fullname), Strip(sPerson.email),
                                            SearchResults[best].url,
                                            parse_linkedin_text(sApi.fetch[other].text))

UrlOfBestIn(matched) == UrlIsOfBest(matched, SelectedIn(matched))

\* C10: the URL returned is the selected candidate's, whatever the follow-up
\* fetched; when the returned text was fetched from another matched candidate,
\* URL and text are of two candidates, and the row pairs that URL with the
\* fields parsed from the other candidate's text.
C10_UrlOfBest ==
    (sOutRow.done /\ ~sApi.search.raises) => UrlOfBestIn(MatchedAt)

\* the second result is selected, its fetch gives no marker, the first
\* result's fetch does: the row has the second's URL and the first's company
C10_Witness ==
    /\ sOutRow.done
    /\ ~sApi.search.raises
    /\ SelectedAt = 2
    /\ sRet.ret.from = 2
    /\ sRet.ret.tried = <<SearchResults[2].url, SearchResults[1].url>>
    /\ sOutRow.row.linkedin_url = SearchResults[2].url
    /\ sOutRow.row.current_company = "Acme"

(***************************************************************************)
(* Spec: runs of main over a roster, one after the other; a run may be     *)
(* terminated at any point of its batch                                    *)
(***************************************************************************)
MaxRoster == 3
MaxKills  == 1

\* a one-word name the normaliser completes ("c" -> "c Ab"), and a blank name
RosterPeople ==
    {[fullname |-> <<"c">>, email |-> <<"c", "a", "b", "1", "@", "b">>, username |-> <<>>],
     [fullname |-> <<" ">>, email |-> <<"c", "@", "b">>, username |-> <<"c">>]}

\* slack.csv rows, each with its position as `id`
Rosters ==
    UNION {{[k \in 1..n |-> [id |-> k, fullname |-> ps[k].fullname,
                              email |-> ps[k].email, username |-> ps[k].username]] :
              ps \in [1..n -> RosterPeople]} : n \in 0..MaxRoster}

\* What the provider's index holds for one person: nothing, or one complete
\* profile.
FullText ==
    Text(<<Plain(<<"C", " ", "A", "b">>), Plain(<<"b">>), ExpLine,
           Role("Member", BAB, FALSE), Dates(1, 2)>>)

PipeResults ==
    {<<>>,
     <<[title |-> <<"C", " ", "A", "b">>, url |-> UrlAt(<<"x">>, 1),
        text |-> FullText]>>}

\* the indexes over a roster; a blank name is never searched (line 38 drops
\* it), so nothing is held for it
PipeIndexes(r) ==
    {ix \in [1..Len(r) -> PipeResults] :
        \A k \in 1..Len(r) : Strip(r[k].fullname) = <<>> => ix[k] = <<>>}

\* What the provider does for one request about a person: the request fails,
\* or it returns what the index holds.
PipeApi(row, fails) ==
    [search |-> [raises |-> fails, results |-> exaIndex[row.id]], fetch |-> <<>>]

Keys == {"valid", "missing", "placeholder"}

Init ==
    /\ roster \in Rosters
    /\ exaIndex \in PipeIndexes(roster)
    /\ remaining = [exists |-> FALSE, rows |-> <<>>]
    /\ output = <<>>
    /\ errlog = <<>>
    /\ pc = "idle"
    /\ rows = <<>>
    /\ i = 0
    /\ lastExit = "none"
    /\ prevCount = 0
    /\ runOut = <<>>
    /\ runLog = <<>>
    /\ kills = 0
    /\ killedOut = <<>>
    /\ GuessParked /\ ParseParked /\ SearchParked

\* lines 277-280: no usable credential, the process exits before any work
StartNoKey ==
    /\ pc = "idle"
    /\ \E key \in Keys \ {"valid"} : lastExit' = "nokey"
    /\ rows' = <<>>
    /\ i' = 0
    /\ prevCount' = 0
    /\ runOut' = <<>>
    /\ runLog' = <<>>
    /\ UNCHANGED <<roster, exaIndex, remaining, output, errlog, pc, kills, killedOut>>
    /\ UNCHANGED <<guessVars, parseVars, searchVars>>

\* lines 284-305 with a valid credential: the rows are loaded (the first run
\* writes remaining.csv); with none left the run returns, else the loop starts
StartRun ==
    /\ pc = "idle"
    /\ LET loaded == IF remaining.exists THEN read_remaining(remaining)
                     ELSE init_remaining(roster)
       IN  /\ rows' = loaded
           /\ remaining' = IF remaining.exists THEN remaining
                            ELSE write_remaining(loaded)
           /\ prevCount' = Len(loaded)
           /\ IF Len(loaded) = 0
              THEN pc' = "idle" /\ lastExit' = "alldone"
              ELSE pc' = "loop" /\ lastExit' = "running"
    /\ i' = 0
    /\ runOut' = <<>>
    /\ runLog' = <<>>
    /\ UNCHANGED <<roster, exaIndex, output, errlog, kills, killedOut>>
    /\ UNCHANGED <<guessVars, parseVars, searchVars>>

\* one entry appended to the output store (and noted as this run's)
AppendEntry(entry) ==
    /\ output' = append_result(output, entry)
    /\ runOut' = Append(runOut, entry)

\* lines 316-324: the row appended when the search returned
AppendFor(row, ret) ==
    /\ ~ret.raised
    /\ AppendEntry([src |-> row.id, row |-> RowFor(row, ret)])

\* lines 325-326: the error logged when the search raised
LogFor(row, ret) ==
    /\ ret.raised
    /\ errlog' = log_error(errlog, Strip(row.email), Strip(row.fullname), row.id)
    /\ runLog' = log_error(runLog, Strip(row.email), Strip(row.fullname), row.id)

\* lines 307-324: one person of the batch, the search not raising
ProcessPerson ==
    /\ pc = "loop"
    /\ i < Len(Batch(rows))
    /\ \E fails \in BOOLEAN :
          AppendFor(Batch(rows)[i + 1],
                    search_linkedin(PipeApi(Batch(rows)[i + 1], fails), Strip(Batch(rows)[i + 1].fullname),
                                    Batch(rows)[i + 1]))
    /\ i' = i + 1
    /\ UNCHANGED <<roster, exaIndex, remaining, errlog, pc, rows, lastExit, prevCount,
                   runLog, kills, killedOut>>
    /\ UNCHANGED <<guessVars, parseVars, searchVars>>

\* lines 315, 325-326: the search raises, the handler logs the error
SearchRaises ==
    /\ pc = "loop"
    /\ i < Len(Batch(rows))
    /\ \E fails \in BOOLEAN :
          LogFor(Batch(rows)[i + 1],
                 search_linkedin(PipeApi(Batch(rows)[i + 1], fails), Strip(Batch(rows)[i + 1].fullname),
                                 Batch(rows)[i + 1]))
    /\ pc' = AfterRaise
    /\ UNCHANGED <<roster, exaIndex, remaining, output, rows, i, lastExit, prevCount,
                   runOut, kills, killedOut>>
    /\ UNCHANGED <<guessVars, parseVars, searchVars>>

\* lines 327-329: the handler appends the empty row; the loop goes on
AppendEmpty ==
    /\ pc = "logged"
    /\ AppendEntry([src |-> Batch(rows)[i + 1].id,
                    row |-> empty_row(Strip(Batch(rows)[i + 1].fullname),
                                      Strip(Batch(rows)[i + 1].email))])
    /\ i' = i + 1
    /\ pc' = "loop"
    /\ UNCHANGED <<roster, exaIndex, remaining, errlog, rows, lastExit, prevCount,
                   runLog, kills, killedOut>>
    /\ UNCHANGED <<guessVars, parseVars, searchVars>>

\* lines 334-336: the batch is done, remaining.csv is rewritten without it
WriteRemaining ==
    /\ pc = "loop"
    /\ i = Len(Batch(rows))
    /\ remaining' = write_remaining(RemainingAfter(rows))
    /\ pc' = "idle"
    /\ lastExit' = "complete"
    /\ killedOut' = <<>>
    /\ UNCHANGED <<roster, exaIndex, output, errlog, rows, i, prevCount, runOut, runLog,
                   kills>>
    /\ UNCHANGED <<guessVars, parseVars, searchVars>>

\* the process is terminated during its batch, before write_remaining
Kill ==
    /\ pc \in {"loop", "logged"}
    /\ kills < MaxKills
    /\ pc' = "idle"
    /\ lastExit' = "killed"
    /\ kills' = kills + 1
    /\ killedOut' = runOut
    /\ UNCHANGED <<roster, exaIndex, remaining, output, errlog, rows, i, prevCount,
                   runOut, runLog>>
    /\ UNCHANGED <<guessVars, parseVars, searchVars>>

Next ==
    \/ StartNoKey
    \/ StartRun
    \/ ProcessPerson
    \/ SearchRaises
    \/ AppendEmpty
    \/ WriteRemaining
    \/ Kill

Spec == Init /\ [][Next]_vars

\* how many output rows are for roster position p
RowsOf(out, p) == Cardinality({k \in 1..Len(out) : out[k].src = p})

IsBlank(person) == Len(Strip(person.fullname)) = 0
IsSuffix(a, b)  == Len(a) <= Len(b) /\ SubSeq(b, Len(b) - Len(a) + 1, Len(b)) = a
Running         == pc \in {"loop", "logged"}

\* the pending store exists and is empty, and no process is running
Drained == pc = "idle" /\ remaining.exists /\ remaining.rows = <<>>

\* C1 as stated: once the pending store is drained by runs none of which was
\* terminated, every record of the roster has exactly one output row.
C1_EveryRosterRecord ==
    (Drained /\ kills = 0) =>
        \A p \in 1..Len(roster) : RowsOf(output, p) = 1

\* C1 as amended: once the pending store is drained by runs none of which was
\* terminated, every roster record with a non-blank fullname has exactly one
\* output row and every record with a blank fullname has none; and at every
\* point of a run the rows it has appended are one per batch person handled so
\* far, in batch order.
C1_EveryNamedRecord ==
    /\ (Drained /\ kills = 0) =>
          \A p \in 1..Len(roster) :
              RowsOf(output, p) = IF IsBlank(roster[p]) THEN 0 ELSE 1
    /\ Len(runOut) = i
    /\ i <= Len(Batch(rows))
    /\ \A k \in 1..Len(runOut) : runOut[k].src = Batch(rows)[k].id

\* a roster of three with a blank name in the middle, drained in one batch:
\* two rows, for the first and the third record
C1_Witness ==
    /\ Drained /\ kills = 0
    /\ Len(roster) = 3
    /\ IsBlank(roster[2]) /\ ~IsBlank(roster[1]) /\ ~IsBlank(roster[3])
    /\ Len(output) = 2
    /\ output[1].src = 1 /\ output[2].src = 3

\* C2: after a run that completes, the pending store holds
\* max(0, previous_count - BATCH_SIZE) rows.
C2_PendingCount ==
    (pc = "idle" /\ lastExit \in {"complete", "alldone"}) =>
        /\ remaining.exists
        /\ Len(remaining.rows) =
              IF prevCount > BATCH_SIZE THEN prevCount - BATCH_SIZE ELSE 0

\* a run that started with more than a batch pending and left the rest
C2_Witness ==
    /\ pc = "idle" /\ lastExit = "complete"
    /\ prevCount > BATCH_SIZE
    /\ Len(remaining.rows) = prevCount - BATCH_SIZE
    /\ Len(runOut) = BATCH_SIZE

\* C3: during a batch, before write_remaining, the pending store is the one
\* the run started from and the rows the run appended are in the output store;
\* when the run is terminated there, the pending store still begins with the
\* whole batch and the rows it appended are still the end of the output store.
C3_KillKeepsStores ==
    /\ Running =>
          /\ remaining.exists
          /\ remaining.rows = rows
          /\ IsSuffix(runOut, output)
    /\ (pc = "idle" /\ lastExit = "killed") =>
          /\ remaining.exists
          /\ SubSeq(remaining.rows, 1, Len(Batch(rows))) = Batch(rows)
          /\ killedOut = runOut
          /\ IsSuffix(killedOut, output)

\* a run of a batch of two terminated after it appended two rows
C3_Witness ==
    /\ pc = "idle" /\ lastExit = "killed"
    /\ Len(Batch(rows)) = 2
    /\ Len(killedOut) = 2
    /\ Len(remaining.rows) >= 2

\* C4: a search that raises is logged once with the person's name and e-mail,
\* the person gets exactly one row, the empty one (only a run terminated
\* between the two leaves the last logged person without it), the loop goes
\* on, and a run that ends by itself has handled the whole batch and
\* rewritten the store.
C4_ErrorKeepsBatch ==
    /\ IsSuffix(runLog, errlog)
    /\ \A k \in 1..Len(runLog) :
          LET e == runLog[k]
          IN  /\ \E n \in 1..Len(Batch(rows)) :
                    /\ Batch(rows)[n].id = e.src
                    /\ e.fullname = Strip(Batch(rows)[n].fullname)
                    /\ e.email = Strip(Batch(rows)[n].email)
              /\ Cardinality({j \in 1..Len(runLog) : runLog[j].src = e.src}) = 1
              /\ \/ /\ pc = "logged" \/ (pc = "idle" /\ lastExit = "killed")
                    /\ k = Len(runLog)
                    /\ RowsOf(runOut, e.src) = 0
                 \/ /\ RowsOf(runOut, e.src) = 1
                    /\ \A j \in 1..Len(runOut) :
                          runOut[j].src = e.src =>
                              runOut[j].row = empty_row(e.fullname, e.email)
    /\ pc = "logged" =>
          /\ i < Len(Batch(rows))
          /\ Len(runLog) > 0
          /\ runLog[Len(runLog)].src = Batch(rows)[i + 1].id
    /\ (pc = "idle" /\ lastExit = "complete") =>
          /\ Len(runOut) = Len(Batch(rows))
          /\ remaining.rows = SubSeq(rows, Len(Batch(rows)) + 1, Len(rows))

\* the first person's search raised, the second person was found, and the
\* run completed
C4_Witness ==
    /\ pc = "idle" /\ lastExit = "complete"
    /\ Len(runOut) = 2
    /\ Len(runLog) = 1
    /\ runLog[1].src = runOut[1].src
    /\ runOut[1].row.linkedin_url = <<>>
    /\ runOut[2].row.linkedin_url # <<>>

\* C9: the run after a terminated one starts from the same pending store and
\* takes the terminated run's batch from its first person, so each person the
\* terminated run had a row for gets a further row; with no run terminated no
\* person has more than one row.
C9_RerunDuplicates ==
    /\ Running =>
          /\ remaining.rows = rows
          /\ Len(killedOut) <= Len(Batch(rows))
          /\ \A k \in 1..Len(killedOut) :
                /\ Batch(rows)[k].id = killedOut[k].src
                /\ k <= i => RowsOf(output, killedOut[k].src) >= 2
    /\ kills = 0 => \A p \in 1..Len(roster) : RowsOf(output, p) <= 1

\* a run terminated after one row, and the next run at the end of the same
\* batch: the first person has two rows
C9_Witness ==
    /\ pc = "loop"
    /\ Len(killedOut) = 1
    /\ i = Len(Batch(rows))
    /\ RowsOf(output, killedOut[1].src) = 2

====
